---- MODULE Spec2Model ----
(***************************************************************************)
(* Model of the FastAPI/MongoDB backend: user registration and login,      *)
(* JWT issue and validation, the get_current_user dependency, and the      *)
(* ownership-guarded product routes.                                       *)
(*                                                                         *)
(* Python values are encoded as follows.                                   *)
(*   - an ObjectId (and its str()) is the string Oid(n);                   *)
(*   - the result of a call is a record with kind "return" or "raise";     *)
(*     a raised HTTPException carries status and detail;                   *)
(*   - a find_one result is the set of documents it may return (empty for  *)
(*     None): with several matching documents MongoDB returns one of them. *)
(*   - reqs is the bag of requests that are suspended at an await;        *)
(*   - wall-clock time is counted in ticks, TicksPerSecond ticks a second; *)
(*     the exp claim of a JWT is in whole seconds.                         *)
(***************************************************************************)
EXTENDS Integers, Sequences, FiniteSets, Bags, TLC

VARIABLES users, products, nextOid, now, issued, reqs, resp

vars == <<users, products, nextOid, now, issued, reqs, resp>>

----------------------------------------------------------------------------
(* Bounds *)

\* ObjectIds the store can hand out.
MaxOid == 3
\* Clock resolution of the model: ticks per second.
TicksPerSecond == 2
\* Largest explicit expires_delta, in seconds.
MaxTtl == 2
\* Ticks the clock is followed beyond the largest explicit expires_delta.
ExtraTicks == 1

\* Requests in flight at one time.
MaxReqs == 2

\* config.py: ACCESS_TOKEN_EXPIRE_MINUTES default.
ACCESS_TOKEN_EXPIRE_MINUTES == 60

----------------------------------------------------------------------------
(* Identifiers and input alphabets *)

Oid(n) == "oid" \o ToString(n)

ObjectIds == {Oid(n) : n \in 1..MaxOid}

\* bson.ObjectId.is_valid
ObjectIdIsValid(s) == s \in ObjectIds

Usernames == {"alice", "bob"}
Emails == {"a@x.com", "b@x.com"}
Passwords == {"pw1", "pw2"}

CredentialsDetail == "Could not validate credentials"
ExpiredDetail == "Token has expired"
LoginDetail == "Incorrect username or password"

Return(v) == [kind |-> "return", value |-> v]
Raise(s, d) == [kind |-> "raise", status |-> s, detail |-> d]

----------------------------------------------------------------------------
(* Password hasher: passlib CryptContext(schemes=["bcrypt"]) *)

\* pwd_context.hash: a bcrypt string embeds the salt and the digest of
\* (salt, secret); the digest is modelled by the pair it is computed from.
Salts == {"s1", "s2"}

get_password_hash(password, salt) ==
    [scheme |-> "bcrypt", wellformed |-> TRUE, salt |-> salt, secret |-> password]

\* Values a password field can hold besides a hash produced above: a string
\* with the bcrypt prefix but a damaged body, a string of no known scheme,
\* and None.
MalformedHash == [scheme |-> "bcrypt", wellformed |-> FALSE, salt |-> "s1", secret |-> "pw1"]
UnknownHash == [scheme |-> "unknown", wellformed |-> FALSE, salt |-> "s1", secret |-> "pw1"]
NoneHash == [scheme |-> "none", wellformed |-> FALSE, salt |-> "s1", secret |-> "pw1"]

StoredValues ==
    {get_password_hash(p, s) : p \in Passwords, s \in Salts}
        \cup {MalformedHash, UnknownHash, NoneHash}

\* pwd_context.verify(plain, hashed): None verifies false; a string of no
\* configured scheme raises UnknownHashError; a bcrypt string that does not
\* parse raises ValueError; otherwise the digests are compared.
verify_password(plain_password, hashed_password) ==
    IF hashed_password.scheme = "none" THEN Return(FALSE)
    ELSE IF hashed_password.scheme # "bcrypt" THEN Raise(500, "UnknownHashError")
    ELSE IF ~hashed_password.wellformed THEN Raise(500, "ValueError")
    ELSE Return(hashed_password.secret = plain_password)

----------------------------------------------------------------------------
(* Token codec: PyJWT HS256 *)

DefaultTtlSeconds == ACCESS_TOKEN_EXPIRE_MINUTES * 60

\* expires_delta: None, or a timedelta of secs seconds.
NoDelta == [given |-> FALSE, secs |-> 0]
Delta(s) == [given |-> TRUE, secs |-> s]
ExpiresDeltas == {NoDelta} \cup {Delta(s) : s \in 0..MaxTtl}

\* Python truthiness of Optional[timedelta]: None and timedelta(0) are falsy.
Truthy(expires_delta) == expires_delta.given /\ expires_delta.secs # 0

\* create_access_token at clock value t (ticks). jwt.encode writes exp as
\* whole seconds (timegm of the datetime), dropping the fraction.
create_access_token(data, expires_delta, t) ==
    LET ttl == IF Truthy(expires_delta) THEN expires_delta.secs ELSE DefaultTtlSeconds
        expire == t + ttl * TicksPerSecond
    IN [wellformed |-> TRUE, sig |-> "good", hasSub |-> data.hasSub,
        sub |-> data.sub, exp |-> expire \div TicksPerSecond]

\* jwt.decode: structure and signature first, then exp against the clock
\* (expired when exp <= now), both as subclasses of InvalidTokenError.
\* decode_token maps them to HTTPException 401.
decode_token(token, t) ==
    IF ~token.wellformed \/ token.sig # "good"
        THEN Raise(401, CredentialsDetail)
    ELSE IF token.exp * TicksPerSecond <= t
        THEN Raise(401, ExpiredDetail)
    ELSE IF ~token.hasSub
        THEN Raise(401, CredentialsDetail)
    ELSE Return(token.sub)

----------------------------------------------------------------------------
(* User store and UserService *)

\* Optional[document]: the empty set is None, a singleton is the document.
\* collection.find_one(filter): the documents it may return.
FindOne(matches) == IF matches = {} THEN {{}} ELSE {{d} : d \in matches}

\* CreateUserSchema instances the /register form carries: every pairing of
\* a username with an email, the password following the email.
Candidates ==
    {[username |-> u, email |-> e,
      password |-> IF e = "a@x.com" THEN "pw1" ELSE "pw2"] :
        u \in Usernames, e \in Emails}

\* The $or query of check_if_user_exists.
OrQuery(store, username, email) ==
    {u \in store : u.username = username \/ u.email = email}

\* Mutant of check_if_user_exists: the email is compared before the username.
check_if_user_exists_email_first(existing_user, username, email) ==
    IF existing_user = {} THEN Return(FALSE)
    ELSE LET doc == CHOOSE d \in existing_user : TRUE
         IN IF doc.email = email
                THEN Raise(400, "Email already exists.")
            ELSE IF doc.username = username
                THEN Raise(400, "Username already exists.")
            ELSE Return(FALSE)

\* check_if_user_exists (is_raise = True), given what find_one returned.
check_if_user_exists(existing_user, username, email) ==
    IF existing_user = {} THEN Return(FALSE)
    ELSE LET doc == CHOOSE d \in existing_user : TRUE
         IN IF doc.username = username
                THEN Raise(400, "Username already exists.")
            ELSE IF doc.email = email
                THEN Raise(400, "Email already exists.")
            ELSE Return(FALSE)

\* The document create_user inserts: model_dump of the form, the password
\* replaced by its hash, _id assigned by insert_one. bcrypt draws a fresh
\* salt for every hash; the fresh ObjectId stands for it.
NewUser(data, oid) ==
    [id |-> oid, username |-> data.username, email |-> data.email,
     password |-> get_password_hash(data.password, oid)]

\* Mutant of get_user_by_id: the lookup is answered from the records known
\* at start-up instead of from the store.
get_user_by_id_cached(store, user_id, dbOk) ==
    IF ~dbOk THEN Raise(500, "Error fetching user by ID")
    ELSE Return({u \in {[id |-> Oid(1), username |-> "alice", email |-> "a@x.com",
                         password |-> get_password_hash("pw1", "s1")]} \cup store :
                     u.id = user_id})

\* get_user_by_id: find_one({"_id": ObjectId(user_id)}); a PyMongoError
\* becomes HTTPException 500.
get_user_by_id(store, user_id, dbOk) ==
    IF ~dbOk THEN Raise(500, "Error fetching user by ID")
    ELSE Return({u \in store : u.id = user_id})

\* get_user_by_username: the filter of its find_one.
ByUsername(store, username) == {u \in store : u.username = username}

\* authenticate_user, given what get_user_by_username returned.
authenticate_user(user, password) ==
    IF user = {} THEN Return({})
    ELSE LET v == verify_password(password, (CHOOSE d \in user : TRUE).password)
         IN IF v.kind = "raise" THEN v
            ELSE IF ~v.value THEN Return({})
            ELSE Return(user)

\* delete_user: delete_one({"_id": ObjectId(user_id)}).
delete_user(store, user_id) == {u \in store : u.id # user_id}

----------------------------------------------------------------------------
(* Authorization guard *)

\* Mutant of get_current_user: the HTTPException of decode_token passes
\* through instead of being replaced.
get_current_user_uncaught(token, t, store, dbOk) ==
    LET credentials_exception == Raise(401, CredentialsDetail)
        d == decode_token(token, t)
    IN IF d.kind = "raise" THEN d
       ELSE IF d.value = "" \/ ~ObjectIdIsValid(d.value) THEN credentials_exception
       ELSE LET user_data == get_user_by_id(store, d.value, dbOk)
            IN IF user_data.kind = "raise" THEN credentials_exception
               ELSE IF user_data.value = {} THEN credentials_exception
               ELSE user_data

\* get_current_user: every exception raised inside the try block, the
\* HTTPExceptions of decode_token and get_user_by_id included, is replaced
\* by the 401 credentials_exception.
get_current_user(token, t, store, dbOk) ==
    LET credentials_exception == Raise(401, CredentialsDetail)
        d == decode_token(token, t)
    IN IF d.kind = "raise" THEN credentials_exception
       ELSE IF d.value = "" \/ ~ObjectIdIsValid(d.value) THEN credentials_exception
       ELSE LET user_data == get_user_by_id(store, d.value, dbOk)
            IN IF user_data.kind = "raise" THEN credentials_exception
               ELSE IF user_data.value = {} THEN credentials_exception
               ELSE user_data

Status(out) == IF out.kind = "raise" THEN out.status ELSE 200

\* The /token route: 401 when authenticate_user returns None, otherwise a
\* token for str(user.id) with the default lifetime. An exception escaping
\* authenticate_user is answered 500 by the framework.
login_for_access_token(user, password, t) ==
    LET a == authenticate_user(user, password)
    IN IF a.kind = "raise" THEN Raise(500, "Internal Server Error")
       ELSE IF a.value = {} THEN Raise(401, LoginDetail)
       ELSE Return(create_access_token(
                [hasSub |-> TRUE, sub |-> (CHOOSE d \in a.value : TRUE).id],
                NoDelta, t))

----------------------------------------------------------------------------
(* State *)

NoResp == [op |-> "none"]

Alice == [id |-> Oid(1), username |-> "alice", email |-> "a@x.com",
          password |-> get_password_hash("pw1", "s1")]
Bob == [id |-> Oid(2), username |-> "bob", email |-> "b@x.com",
        password |-> get_password_hash("pw2", "s2")]


\* The clock is followed on two windows: right after start-up and right
\* after one default token lifetime has passed.
DefaultTtlTicks == DefaultTtlSeconds * TicksPerSecond
Window == MaxTtl * TicksPerSecond + ExtraTicks

\* The "data" dicts create_access_token is called with: no sub, an empty
\* sub, a sub that is no ObjectId, and the ObjectIds handed out so far plus
\* the next one.
TokenData ==
    {[hasSub |-> FALSE, sub |-> ""], [hasSub |-> TRUE, sub |-> ""],
     [hasSub |-> TRUE, sub |-> "notanoid"]}
        \cup {[hasSub |-> TRUE, sub |-> Oid(n)] : n \in 1..nextOid}

\* What a client can present for an issued token: the token itself, the
\* token with an altered signature, or a string that is no JWT.
Presented(x) ==
    {x.token, [x.token EXCEPT !.sig = "bad"], [x.token EXCEPT !.wellformed = FALSE]}

----------------------------------------------------------------------------
(* Actions: clock, token codec, identity resolution *)
(* resp is the response to the step just taken: NoResp after a step that   *)
(* answers no request. issued holds the token the client under observation *)
(* carries, with the time and the expires_delta it was created with.       *)

Advance ==
    /\ \E d \in {1, DefaultTtlTicks} :
          /\ d = 1 => (now % DefaultTtlTicks) < Window
          /\ now + d <= DefaultTtlTicks + Window
          /\ now' = now + d
    /\ resp' = NoResp
    /\ UNCHANGED <<users, products, nextOid, issued, reqs>>

\* A direct call of create_access_token; the client keeps the new token.
CreateAccessToken ==
    /\ \E data \in TokenData, delta \in ExpiresDeltas :
          issued' = {[token |-> create_access_token(data, delta, now),
                      t0 |-> now, delta |-> delta]}
    /\ resp' = NoResp
    /\ UNCHANGED <<users, products, nextOid, now, reqs>>

\* A direct call of decode_token.
DecodeToken ==
    /\ \E x \in issued : \E tok \in Presented(x) :
          resp' = [op |-> "decode_token", token |-> tok, time |-> now,
                   t0 |-> x.t0, delta |-> x.delta,
                   out |-> decode_token(tok, now)]
    /\ UNCHANGED <<users, products, nextOid, now, issued, reqs>>

\* The get_current_user dependency, called on its own.
GetCurrentUser ==
    /\ \E x \in issued : \E tok \in Presented(x) : \E dbOk \in BOOLEAN :
          resp' = [op |-> "get_current_user", token |-> tok, time |-> now,
                   dbOk |-> dbOk,
                   out |-> get_current_user(tok, now, users, dbOk)]
    /\ UNCHANGED <<users, products, nextOid, now, issued, reqs>>

\* POST /token.
Login ==
    /\ \E username \in Usernames, password \in Passwords :
       \E user \in FindOne(ByUsername(users, username)) :
          LET out == login_for_access_token(user, password, now)
          IN /\ resp' = [op |-> "login", username |-> username,
                         password |-> password, time |-> now, out |-> out]
             /\ issued' = IF out.kind = "return"
                             THEN {[token |-> out.value, t0 |-> now, delta |-> NoDelta]}
                             ELSE issued
    /\ UNCHANGED <<users, products, nextOid, now, reqs>>

\* UserService.delete_user.
DeleteUser ==
    /\ \E u \in users : users' = delete_user(users, u.id)
    /\ resp' = NoResp
    /\ UNCHANGED <<products, nextOid, now, issued, reqs>>

InitAuth ==
    /\ users = {Alice, Bob}
    /\ products = {}
    /\ nextOid = 3
    /\ now = 0
    /\ issued = {}
    /\ reqs = EmptyBag
    /\ resp = NoResp

NextAuth ==
    \/ Advance
    \/ CreateAccessToken
    \/ DecodeToken
    \/ GetCurrentUser
    \/ Login
    \/ DeleteUser

SpecAuth == InitAuth /\ [][NextAuth]_vars

----------------------------------------------------------------------------
(* Actions: registration *)
(* POST /register awaits check_if_user_exists and then create_user: two     *)
(* round trips to the store, between which other requests run.              *)

RegisterCheck ==
    /\ \E data \in Candidates :
       \E found \in FindOne(OrQuery(users, data.username, data.email)) :
          LET out == check_if_user_exists(found, data.username, data.email)
          IN /\ out.kind = "return" => BagCardinality(reqs) < MaxReqs
             /\ resp' = [op |-> "check_if_user_exists", data |-> data,
                         found |-> found, out |-> out]
             /\ reqs' = IF out.kind = "raise" THEN reqs
                        ELSE reqs (+) SetToBag({[op |-> "register", data |-> data]})
    /\ UNCHANGED <<users, products, nextOid, now, issued>>

\* create_user: insert_one, or a 500 answer when the store is unreachable.
RegisterInsert ==
    /\ nextOid <= MaxOid
    /\ \E q \in BagToSet(reqs) : \E dbOk \in BOOLEAN :
          LET doc == NewUser(q.data, Oid(nextOid))
          IN /\ q.op = "register"
             /\ reqs' = reqs (-) SetToBag({q})
             /\ IF dbOk
                   THEN /\ users' = users \cup {doc}
                        /\ nextOid' = nextOid + 1
                        /\ resp' = [op |-> "register", data |-> q.data,
                                    out |-> Return(doc)]
                   ELSE /\ UNCHANGED <<users, nextOid>>
                        /\ resp' = [op |-> "register", data |-> q.data,
                                    out |-> Raise(500, "Internal server error")]
    /\ UNCHANGED <<products, now, issued>>

InitReg ==
    /\ users = {}
    /\ products = {}
    /\ nextOid = 1
    /\ now = 0
    /\ issued = {}
    /\ reqs = EmptyBag
    /\ resp = NoResp

NextReg ==
    \/ RegisterCheck
    \/ RegisterInsert
    \/ Login

SpecReg == InitReg /\ [][NextReg]_vars

----------------------------------------------------------------------------
(* The password hasher on arbitrary stored values *)

\* A direct call of verify_password on the password field of a record.
VerifyPassword ==
    /\ \E plain \in Passwords, u \in users :
          resp' = [op |-> "verify_password", plain |-> plain,
                   hashed |-> u.password,
                   out |-> verify_password(plain, u.password)]
    /\ UNCHANGED <<users, products, nextOid, now, issued, reqs>>

\* The stores drawn here hold, for each of two users, any value a password
\* field can hold, damaged ones included.
InitPw ==
    /\ \E h1 \in StoredValues, h2 \in StoredValues :
          users = {[Alice EXCEPT !.password = h1], [Bob EXCEPT !.password = h2]}
    /\ products = {}
    /\ nextOid = 3
    /\ now = 0
    /\ issued = {}
    /\ reqs = EmptyBag
    /\ resp = NoResp

NextPw ==
    \/ VerifyPassword
    \/ Login

SpecPw == InitPw /\ [][NextPw]_vars

----------------------------------------------------------------------------
(* Product store, ProductService and the product routes *)

\* A product document: _id, owner_id, name, price.
ProductNames == {"ab", "abc"}
Prices == {0, 1}
BodyFields == {"name", "price", "owner_id"}

\* A JSON request body: the keys it carries and their values (a key that is
\* not carried has the filler value of its type).
Bodies ==
    {b \in [fields : SUBSET BodyFields, name : ProductNames \cup {""},
            price : Prices \cup {-1}, owner_id : {Alice.id, Bob.id, ""}] :
        /\ ("name" \in b.fields) <=> (b.name # "")
        /\ ("price" \in b.fields) <=> (b.price # -1)
        /\ ("owner_id" \in b.fields) <=> (b.owner_id # "")}

\* ProductSchema(**doc): name of 3..50 characters, price > 0.
ValidProduct(doc) == Len(doc.name) >= 3 /\ Len(doc.name) <= 50 /\ doc.price > 0

\* ProductCreateSchema: name and price required and constrained.
ValidCreate(b) ==
    /\ {"name", "price"} \subseteq b.fields
    /\ Len(b.name) >= 3 /\ Len(b.name) <= 50
    /\ b.price > 0

\* ProductUpdateSchema: name is any string, price must be > 0 when given.
ValidUpdate(b) == "price" \in b.fields => b.price > 0

\* ProductUpdateSchema.model_dump: keys the schema does not declare are not
\* part of the model.
UpdateDump(b) ==
    [b EXCEPT !.fields = @ \ {"owner_id"}, !.owner_id = ""]

\* {"$set": d} applied to a document.
SetFields(doc, d) ==
    [id |-> doc.id,
     owner_id |-> IF "owner_id" \in d.fields THEN d.owner_id ELSE doc.owner_id,
     name |-> IF "name" \in d.fields THEN d.name ELSE doc.name,
     price |-> IF "price" \in d.fields THEN d.price ELSE doc.price]

ById(store, pid) == {p \in store : p.id = pid}

\* create_product: the document inserted for current_user.
NewProduct(current_user, b, oid) ==
    [id |-> oid, owner_id |-> current_user.id, name |-> b.name, price |-> b.price]

\* get_product_by_id: None, the document, or the exception raised for a
\* store error or for a document ProductSchema rejects.
get_product_by_id(store, pid, dbOk) ==
    IF ~dbOk THEN Raise(500, "Error fetching product by ID")
    ELSE IF \E p \in ById(store, pid) : ~ValidProduct(p)
        THEN Raise(500, "Error fetching product by ID")
    ELSE Return(ById(store, pid))

\* find_one_and_update with upsert=True: a document is inserted when none
\* matches.
FindOneAndUpdate_upsert(store, pid, d) ==
    IF ById(store, pid) = {}
        THEN store \cup {SetFields([id |-> pid, owner_id |-> "", name |-> "",
                                    price |-> 0], d)}
        ELSE {IF p.id = pid THEN SetFields(p, d) ELSE p : p \in store}

\* find_one_and_update({"_id": pid}, {"$set": d}): the store afterwards.
FindOneAndUpdate(store, pid, d) ==
    {IF p.id = pid THEN SetFields(p, d) ELSE p : p \in store}

\* The result of update_product / partial_update_product after the write:
\* None when no document matched, the updated document, or the exception
\* raised when ProductSchema rejects the updated document.
UpdateResult(store, pid) ==
    IF ById(store, pid) = {} THEN Return({})
    ELSE IF \E p \in ById(store, pid) : ~ValidProduct(p)
        THEN Raise(500, "Error updating product")
    ELSE Return(ById(store, pid))

\* A service call that never reached a document.
NoWrite(store, out) == [store |-> store, matched |-> FALSE, out |-> out]

\* update_product: the store afterwards, whether the write matched a
\* document (updated_at is set on every match), and the result.
update_product(store, pid, b, dbOk) ==
    IF ~dbOk THEN NoWrite(store, Raise(500, "Error updating product"))
    ELSE LET after == FindOneAndUpdate(store, pid, UpdateDump(b))
         IN [store |-> after, matched |-> ById(store, pid) # {},
             out |-> UpdateResult(after, pid)]

\* partial_update_product; an empty dict raises before the write.
partial_update_product(store, pid, b, dbOk) ==
    IF b.fields = {} THEN NoWrite(store, Raise(400, "No fields to update"))
    ELSE IF ~dbOk THEN NoWrite(store, Raise(500, "Error updating product"))
    ELSE LET after == FindOneAndUpdate(store, pid, b)
         IN [store |-> after, matched |-> ById(store, pid) # {},
             out |-> UpdateResult(after, pid)]

\* delete_product; the result is the value of deleted_count > 0.
delete_product(store, pid, dbOk) ==
    IF ~dbOk THEN NoWrite(store, Raise(500, "Error deleting product"))
    ELSE [store |-> {p \in store : p.id # pid}, matched |-> ById(store, pid) # {},
          out |-> Return(ById(store, pid) # {})]

\* The part of a PUT / PATCH / DELETE route up to the ownership check:
\* "pass" or the HTTP error raised.
OwnerCheck(auth, pid, store, dbOk) ==
    IF auth.kind = "raise" THEN auth
    ELSE IF ~ObjectIdIsValid(pid) THEN Raise(400, "Invalid product ID format")
    ELSE LET product == get_product_by_id(store, pid, dbOk)
             current_user == CHOOSE u \in auth.value : TRUE
         IN IF product.kind = "raise" THEN Raise(500, "Internal Server Error")
            ELSE IF product.value = {} THEN Raise(404, "Product not found")
            ELSE IF (CHOOSE p \in product.value : TRUE).owner_id # current_user.id
                THEN Raise(403, "You do not have permission")
            ELSE Return("pass")

\* The answer of the PUT and PATCH routes to the service's result.
UpdateAnswer(out) ==
    IF out.kind = "raise" THEN Raise(500, "Internal server error")
    ELSE IF out.value = {} THEN Raise(404, "Product not found")
    ELSE out

\* The answer of the DELETE route to the service's result.
DeleteAnswer(out) ==
    IF out.kind = "raise" THEN Raise(500, "Internal Server Error")
    ELSE IF ~out.value THEN Raise(500, "Failed to delete product")
    ELSE Return("Product deleted successfully")

MutatingOps == {"PUT", "PATCH", "DELETE"}

\* Product ids a request path can carry: an existing product, an ObjectId
\* that names no product, a string that is no ObjectId.
PidInputs == {p.id : p \in products} \cup {Alice.id, "notanoid"}

\* POST /products/.
CreateProduct ==
    /\ nextOid <= MaxOid
    /\ \E x \in issued : \E tok \in Presented(x) : \E b \in Bodies : \E dbOk \in BOOLEAN :
          LET auth == get_current_user(tok, now, users, dbOk)
          IN IF auth.kind = "raise"
                THEN /\ resp' = [op |-> "POST", out |-> auth]
                     /\ UNCHANGED <<products, nextOid>>
             ELSE IF ~ValidCreate(b)
                THEN /\ resp' = [op |-> "POST", out |-> Raise(422, "validation error")]
                     /\ UNCHANGED <<products, nextOid>>
             ELSE LET doc == NewProduct(CHOOSE u \in auth.value : TRUE, b, Oid(nextOid))
                  IN /\ products' = products \cup {doc}
                     /\ nextOid' = nextOid + 1
                     /\ resp' = [op |-> "POST", user |-> tok.sub,
                                 out |-> Return({doc})]
    /\ UNCHANGED <<users, now, issued, reqs>>

\* A DELETE route that deletes before it compares the owner.
MutationCheck_delete_first ==
    /\ \E op \in MutatingOps : \E x \in issued : \E tok \in Presented(x) :
       \E pid \in PidInputs : \E dbOk \in BOOLEAN : \E bodyOk \in BOOLEAN :
          LET auth == get_current_user(tok, now, users, dbOk)
              chk == IF auth.kind = "return" /\ op = "PUT" /\ ~bodyOk
                        THEN Raise(422, "validation error")
                        ELSE OwnerCheck(auth, pid, products, dbOk)
              uid == IF auth.kind = "return"
                        THEN (CHOOSE u \in auth.value : TRUE).id ELSE ""
          IN /\ chk.kind = "return" => BagCardinality(reqs) < MaxReqs
             /\ resp' = [op |-> op, phase |-> "check", pid |-> pid,
                         user |-> uid, dbOk |-> dbOk, out |-> chk]
             /\ reqs' = IF chk.kind = "raise" THEN reqs
                        ELSE reqs (+) SetToBag({[op |-> op, pid |-> pid, user |-> uid]})
             /\ products' = IF op = "DELETE" /\ Status(chk) = 403
                                THEN delete_product(products, pid, dbOk).store
                                ELSE products
    /\ UNCHANGED <<users, nextOid, now, issued>>

\* A PUT, PATCH or DELETE request up to and including its ownership check.
\* get_current_user reads the user store and the clock only, which no step
\* of this specification changes, so it is taken together with the fetch
\* of the product. A PUT body ProductUpdateSchema rejects is answered 422
\* once the dependencies are resolved. The request then waits for its
\* write; its body is drawn when it is used. In the response, user is the
\* id get_current_user resolved ("" when it raised).
MutationCheck ==
    /\ \E op \in MutatingOps : \E x \in issued : \E tok \in Presented(x) :
       \E pid \in PidInputs : \E dbOk \in BOOLEAN : \E bodyOk \in BOOLEAN :
          LET auth == get_current_user(tok, now, users, dbOk)
              chk == IF auth.kind = "return" /\ op = "PUT" /\ ~bodyOk
                        THEN Raise(422, "validation error")
                        ELSE OwnerCheck(auth, pid, products, dbOk)
              uid == IF auth.kind = "return"
                        THEN (CHOOSE u \in auth.value : TRUE).id ELSE ""
          IN /\ chk.kind = "return" => BagCardinality(reqs) < MaxReqs
             /\ resp' = [op |-> op, phase |-> "check", pid |-> pid,
                         user |-> uid, dbOk |-> dbOk, out |-> chk]
             /\ reqs' = IF chk.kind = "raise" THEN reqs
                        ELSE reqs (+) SetToBag({[op |-> op, pid |-> pid, user |-> uid]})
    /\ UNCHANGED <<users, products, nextOid, now, issued>>

\* The store write of a request that passed its ownership check, and the
\* answer. In the response, owner is the owner_id the product had when the
\* write was applied (empty when the product was gone), applied whether the
\* write matched a document, empty whether the body carried no key.
MutationWrite ==
    /\ \E q \in BagToSet(reqs) : \E b \in Bodies : \E dbOk \in BOOLEAN :
          LET r == CASE q.op = "PUT" -> update_product(products, q.pid, b, dbOk)
                     [] q.op = "PATCH" -> partial_update_product(products, q.pid, b, dbOk)
                     [] q.op = "DELETE" -> delete_product(products, q.pid, dbOk)
              ans == IF q.op = "DELETE" THEN DeleteAnswer(r.out) ELSE UpdateAnswer(r.out)
          IN /\ q.op \in MutatingOps
             /\ q.op = "PUT" => ValidUpdate(b)
             /\ q.op = "DELETE" => b.fields = {}
             /\ products' = r.store
             /\ reqs' = reqs (-) SetToBag({q})
             /\ resp' = [op |-> q.op, phase |-> "write", pid |-> q.pid,
                         user |-> q.user, empty |-> b.fields = {},
                         dbOk |-> dbOk,
                         owner |-> {p.owner_id : p \in ById(products, q.pid)},
                         applied |-> r.matched,
                         out |-> ans]
    /\ UNCHANGED <<users, nextOid, now, issued>>

InitProd ==
    /\ users = {Alice, Bob}
    /\ products = {}
    /\ nextOid = 3
    /\ now = 0
    /\ issued = {}
    /\ reqs = EmptyBag
    /\ resp = NoResp

NextProd ==
    \/ Login
    \/ CreateProduct
    \/ MutationCheck
    \/ MutationWrite

SpecProd == InitProd /\ [][NextProd]_vars

----------------------------------------------------------------------------
(* Registration, login, identity resolution and the product routes together *)

\* A PUT, PATCH or DELETE request followed up to the verdict of its
\* ownership check; what the route does after it is the subject of SpecProd.
OwnershipCheck ==
    /\ \E op \in MutatingOps : \E x \in issued : \E tok \in Presented(x) :
       \E pid \in PidInputs : \E dbOk \in BOOLEAN :
          LET auth == get_current_user(tok, now, users, dbOk)
          IN resp' = [op |-> op, phase |-> "check", pid |-> pid,
                      user |-> IF auth.kind = "return"
                                  THEN (CHOOSE u \in auth.value : TRUE).id ELSE "",
                      dbOk |-> dbOk,
                      out |-> OwnerCheck(auth, pid, products, dbOk)]
    /\ UNCHANGED <<users, products, nextOid, now, issued, reqs>>

NextE2E ==
    \/ RegisterCheck
    \/ RegisterInsert
    \/ Login
    \/ GetCurrentUser
    \/ CreateProduct
    \/ OwnershipCheck

SpecE2E == InitReg /\ [][NextE2E]_vars

----------------------------------------------------------------------------
(* Properties of identity resolution and the token codec (SpecAuth) *)

\* The token was produced by create_access_token and not altered.
Genuine(tok) == tok.wellformed /\ tok.sig = "good"

\* The exp claim lies in the past at clock value t.
Expired(tok, t) == tok.exp * TicksPerSecond <= t

\* The store holds a record whose id is the token's subject.
Names(tok, store) == tok.hasSub /\ \E u \in store : u.id = tok.sub

Unauthorized == Raise(401, CredentialsDetail)

\* C4: get_current_user answers every token problem (expired, bad
\* signature, malformed, no sub, sub that is no ObjectId, subject not in the
\* store) with the one 401 'Could not validate credentials' response, and
\* whatever it raises is that response.
C4_TokenProblemsCollapse ==
    resp.op = "get_current_user" =>
        /\ (\/ ~resp.token.wellformed
            \/ resp.token.sig # "good"
            \/ Expired(resp.token, resp.time)
            \/ ~resp.token.hasSub
            \/ ~ObjectIdIsValid(resp.token.sub)
            \/ ~Names(resp.token, users)) => resp.out = Unauthorized
        /\ resp.out.kind = "raise" => resp.out = Unauthorized

\* C4 witness: a correctly signed token that has expired was answered with
\* the generic 401.
C4_Witness ==
    /\ resp.op = "get_current_user"
    /\ Genuine(resp.token)
    /\ Expired(resp.token, resp.time)
    /\ Names(resp.token, users)
    /\ resp.out = Unauthorized

\* C5 (as claimed): a token created with expires_delta T at t0 decodes to
\* its subject at every time before t0 + T and is rejected as expired at
\* every time from t0 + T on, T = 0 included.
C5_TtlWindow ==
    (/\ resp.op = "decode_token"
     /\ resp.delta.given
     /\ Genuine(resp.token)
     /\ resp.token.hasSub
     /\ resp.token.sub # "")
    => LET deadline == resp.t0 + resp.delta.secs * TicksPerSecond
       IN /\ resp.time < deadline => resp.out = Return(resp.token.sub)
          /\ resp.time >= deadline => resp.out = Raise(401, ExpiredDetail)

\* C6 (as claimed): decode_token never returns a missing or empty subject;
\* a correctly signed, unexpired token without sub or with sub "" gets the
\* invalid-token 401.
C6_NoEmptySubject ==
    (/\ resp.op = "decode_token"
     /\ Genuine(resp.token)
     /\ ~Expired(resp.token, resp.time)
     /\ (~resp.token.hasSub \/ resp.token.sub = ""))
    => resp.out = Unauthorized

\* C7: get_current_user returns a record only if the token's subject is the
\* id of a record in the store at verification time, and then returns that
\* record; a token whose user has been deleted is answered 401.
C7_SubjectMustExist ==
    resp.op = "get_current_user" =>
        /\ resp.out.kind = "return" =>
              \E u \in users : /\ resp.token.hasSub
                               /\ u.id = resp.token.sub
                               /\ resp.out.value = {u}
        /\ ~Names(resp.token, users) => Status(resp.out) = 401

\* C7 witness: a correctly signed, unexpired token issued by /token for a
\* user that has since been deleted was answered 401.
C7_Witness ==
    /\ resp.op = "get_current_user"
    /\ Genuine(resp.token)
    /\ ~Expired(resp.token, resp.time)
    /\ \E x \in issued : x.token = resp.token /\ ~x.delta.given
    /\ resp.token.sub \in {Alice.id, Bob.id}
    /\ ~Names(resp.token, users)
    /\ resp.dbOk
    /\ Status(resp.out) = 401

\* C9 (as claimed): when the user lookup of get_current_user fails with a
\* database error, the request ends with an internal error, not with the
\* 401 given for bad tokens and unknown subjects.
C9_DbErrorIsInternal ==
    (/\ resp.op = "get_current_user"
     /\ Genuine(resp.token)
     /\ ~Expired(resp.token, resp.time)
     /\ resp.token.hasSub
     /\ ObjectIdIsValid(resp.token.sub)
     /\ ~resp.dbOk)
    => Status(resp.out) = 500

----------------------------------------------------------------------------
(* Properties of registration and login (SpecReg, SpecPw) *)

UsernameTaken == Raise(400, "Username already exists.")
EmailTaken == Raise(400, "Email already exists.")

\* C2 (as claimed): no two stored user records share a username, and no two
\* share an email.
C2_UniqueUsers ==
    \A u \in users : \A v \in users :
        u # v => u.username # v.username /\ u.email # v.email

\* C3 (as claimed): if any stored record has the candidate's username the
\* registration is rejected as username-taken; it is rejected as email-taken
\* only when no stored record has the username and some record has the
\* email, also when the two collisions are with different records.
C3_UsernamePriorityAnyRecord ==
    resp.op = "check_if_user_exists" =>
        /\ (\E u \in users : u.username = resp.data.username)
              => resp.out = UsernameTaken
        /\ resp.out = EmailTaken =>
              /\ ~\E u \in users : u.username = resp.data.username
              /\ \E u \in users : u.email = resp.data.email

\* C3 (amended): a candidate whose username or email is held by a stored
\* record is rejected with 400; the error is username-taken when the record
\* the lookup returned has the candidate's username, in particular whenever
\* every colliding record has it, and email-taken when the returned record
\* has only the candidate's email.
C3_UsernamePriorityReturnedRecord ==
    resp.op = "check_if_user_exists" =>
        LET hits == OrQuery(users, resp.data.username, resp.data.email)
        IN /\ hits = {} <=> resp.out = Return(FALSE)
           /\ hits # {} => resp.out \in {UsernameTaken, EmailTaken}
           /\ \A d \in resp.found :
                 /\ d \in hits
                 /\ d.username = resp.data.username => resp.out = UsernameTaken
                 /\ d.username # resp.data.username => resp.out = EmailTaken
           /\ (hits # {} /\ \A u \in hits : u.username = resp.data.username)
                 => resp.out = UsernameTaken
           /\ resp.out = EmailTaken => \E u \in users : u.email = resp.data.email

\* C3 witness: the candidate's username is held by one stored record and
\* its email by another, the lookup returned the latter, and the answer was
\* email-taken.
C3_Witness ==
    /\ resp.op = "check_if_user_exists"
    /\ \E u \in users : \E v \in users :
          /\ u.username = resp.data.username
          /\ v.username # resp.data.username
          /\ v.email = resp.data.email
          /\ resp.found = {v}
    /\ resp.out = EmailTaken

\* C8 (as claimed): /token succeeds if and only if some stored record has
\* the username and a hash the password verifies against; an unknown
\* username and a wrong password both get the 401 'Incorrect username or
\* password' answer.
C8_AuthenticateIff ==
    resp.op = "login" =>
        LET match == \E u \in users :
                        /\ u.username = resp.username
                        /\ verify_password(resp.password, u.password) = Return(TRUE)
        IN /\ resp.out.kind = "return" <=> match
           /\ ~match => resp.out = Raise(401, LoginDetail)

\* C10 (as claimed): verify_password returns a boolean for every stored
\* value and false for one that is no well-formed bcrypt hash, so that
\* /token answers 401 and does not fail.
C10_VerifyNeverRaises ==
    /\ resp.op = "verify_password" =>
          /\ resp.out.kind = "return"
          /\ ~(resp.hashed.scheme = "bcrypt" /\ resp.hashed.wellformed)
                => resp.out = Return(FALSE)
    /\ resp.op = "login" => Status(resp.out) \in {200, 401}

----------------------------------------------------------------------------
(* Properties of the product routes (SpecProd) *)

\* C1 (as claimed): a PUT, PATCH or DELETE changes or removes a stored
\* product only if the product's owner_id equals the requesting user's id
\* at the moment the write is applied.
C1_OwnerAtWrite ==
    (/\ resp.op \in MutatingOps
     /\ resp.phase = "write"
     /\ resp.applied)
    => resp.owner = {resp.user}

\* C12: a PUT, PATCH or DELETE request answered with 401, 400, 404 or 403
\* leaves the product store unchanged.
C12_RejectedLeavesStore ==
    [][(/\ resp'.op \in MutatingOps
        /\ Status(resp'.out) \in {401, 400, 404, 403})
       => products' = products]_vars

\* A request of a user who is not the owner of an existing product has been
\* answered 403.
C12_Witness ==
    /\ resp.op \in MutatingOps
    /\ Status(resp.out) = 403
    /\ \E p \in ById(products, resp.pid) : p.owner_id # resp.user

\* C13: a product's owner_id is the creating user's id when the product
\* enters the store, and no later step changes it.
C13_OwnerFixed ==
    [][\A q \in products' :
          IF ById(products, q.id) = {}
             THEN /\ resp'.op = "POST"
                  /\ resp'.out.kind = "return"
                  /\ q.owner_id = resp'.user
             ELSE \A p \in ById(products, q.id) : q.owner_id = p.owner_id]_vars

\* C14: every stored product satisfies ProductSchema, so get_product_by_id
\* returns it whenever the store answers.
C14_StoredProductsValid ==
    \A p \in products :
        /\ ValidProduct(p)
        /\ get_product_by_id(products, p.id, TRUE) = Return({p})

\* C15: a PUT or PATCH request answered with 422 or 500 leaves the stored
\* product as it was.
C15_ErrorLeavesProduct ==
    [][(/\ resp'.op \in {"PUT", "PATCH"}
        /\ Status(resp'.out) \in {422, 500})
       => ById(products', resp'.pid) = ById(products, resp'.pid)]_vars

\* The PUT or PATCH write found its product gone: the request passed the
\* existence check and the product was deleted before the write.
WriteAfterDelete(r, store) ==
    /\ r.op \in {"PUT", "PATCH"}
    /\ r.phase = "write"
    /\ ById(store, r.pid) = {}

\* A product id enters the store only as the fresh id of a POST.
OnlyFreshIds ==
    \A q \in products' :
        ById(products, q.id) = {} => q.id = Oid(nextOid) /\ nextOid' = nextOid + 1

\* C16 as stated: a PUT or PATCH whose product was deleted between its check
\* and its write, the store answering, writes nothing and answers 404; no
\* step brings back an id that has left the store.
C16_DeletedAnswers404 ==
    [][/\ (WriteAfterDelete(resp', products) /\ resp'.dbOk)
          => products' = products /\ Status(resp'.out) = 404
       /\ OnlyFreshIds]_vars

\* C16 amended: such a PUT or PATCH writes nothing and answers 404, or 500
\* when the PATCH body is empty or the store fails; no step brings back an
\* id that has left the store.
C16_DeletedNotRecreated ==
    [][/\ WriteAfterDelete(resp', products)
          => /\ products' = products
             /\ Status(resp'.out) =
                   IF resp'.dbOk /\ ~(resp'.op = "PATCH" /\ resp'.empty)
                      THEN 404 ELSE 500
       /\ OnlyFreshIds]_vars

\* A PUT or PATCH whose product was deleted after its check has been
\* answered 404.
C16_Witness ==
    /\ resp.op \in {"PUT", "PATCH"}
    /\ resp.phase = "write"
    /\ resp.owner = {}
    /\ Status(resp.out) = 404
    /\ ById(products, resp.pid) = {}

----------------------------------------------------------------------------
(* Properties of the path from registration to the ownership check (SpecE2E) *)

\* The user record u is the one the credentials of a /token request name.
CredentialsOf(u, username, password) ==
    /\ u.username = username
    /\ verify_password(password, u.password) = Return(TRUE)

\* C11: for every registered user u, /token with u's username and password
\* answers a token whose sub is u's id; get_current_user on the token /token
\* issued, before expiry and while its subject exists, returns the record
\* with that id; with an identity resolved, a mutating request on a product
\* of that id passes the ownership check and one on a product of another
\* id is answered 403.
C11_EndToEnd ==
    /\ resp.op = "login" =>
          \A u \in users :
             CredentialsOf(u, resp.username, resp.password)
                => resp.out.kind = "return" /\ resp.out.value.sub = u.id
    /\ resp.op = "get_current_user" =>
          ((/\ \E x \in issued : x.token = resp.token
            /\ ~Expired(resp.token, resp.time)
            /\ Names(resp.token, users)
            /\ resp.dbOk)
           => \E u \in users : u.id = resp.token.sub /\ resp.out = Return({u}))
    /\ (resp.op \in MutatingOps /\ resp.phase = "check") =>
          ((resp.user # "" /\ resp.dbOk)
           => \A p \in ById(products, resp.pid) :
                 IF p.owner_id = resp.user
                    THEN resp.out = Return("pass")
                    ELSE Status(resp.out) = 403)

====
